---------------------------- MODULE Spec2Model ----------------------------
(* A model of libmachine/provision/alpine.go: the Alpine provisioner.       *)
(* Every remote command (SSHCommand) and every call into the generic base   *)
(* or a collaborator is one blocking step whose outcome (success or one of  *)
(* several errors) is chosen by the environment; the events of the call in  *)
(* progress are recorded in log.                                            *)
EXTENDS Naturals, Sequences, FiniteSets, TLC

VARIABLES
    prov,      \* prov[i]: the fields of provisioner instance i
    pc,        \* pc[i]: where instance i's running call stands ("idle": none)
    top,       \* top[i]: the operation the caller invoked, with its arguments, and
               \*         (caller) what the caller's own option structs hold
    loc,       \* loc[i]: the locals of the running call
    log,       \* log[i]: the events issued by the current (or last) call
    result,    \* result[i]: what the last completed call returned
    prev       \* prev[i]: the call completed before the current one

vars == <<prov, pc, top, loc, log, result, prev>>

-----------------------------------------------------------------------------
(* Values *)

\* Provisioner instances; Active are those the caller drives in Spec.
Inst == {"p1", "p2"}
Active == {"p1"}

\* drivers.Driver: GetMachineName() and DriverName().
Drivers ==
    { [MachineName |-> "alpha", DriverName |-> "virtualbox"],
      [MachineName |-> "beta", DriverName |-> "amazonec2"] }

\* The nil error, and the errors a remote command or a collaborator returns.
NoError == "<nil>"
MaxErrors == 2
ErrVals == {"exit status " \o ToString(k) : k \in 1..MaxErrors}
Outcomes == {NoError} \cup ErrVals
Pending == "<pending>"

\* pkgaction.PackageAction and serviceaction.ServiceAction.
Install == "Install"
Remove == "Remove"
Upgrade == "Upgrade"
PackageActions == {Install, Remove, Upgrade}
ServiceActions == {"Start", "Stop", "Restart"}

\* serviceaction.ServiceAction.String(): the lowercase token.
ServiceActionString(action) ==
    CASE action = "Start" -> "start"
      [] action = "Stop" -> "stop"
      [] action = "Restart" -> "restart"

\* drivers.DefaultEngineInstallURL.
DefaultEngineInstallURL == "https://get.docker.com"

\* The arguments the caller chooses from.
PkgNames == {"docker", "nginx"}
ServiceNames == {"docker"}
Hostnames == {"alpha", "newname"}
EnvSet == { <<>>, <<"HTTP_PROXY=proxy:3128">> }
StorageDrivers == {"", "overlay", "btrfs", "aufs"}
InstallURLs == {DefaultEngineInstallURL, "", "https://test.docker.com"}
SwarmInputs == [Discovery : {"token://t"}, Env : EnvSet]
EngineInputs == [Env : EnvSet, InstallURL : InstallURLs, StorageDriver : StorageDrivers]
AuthInputs ==
    { [CertDir |-> "/local/certs", CaCertRemotePath |-> "",
       ServerCertRemotePath |-> "", ServerKeyRemotePath |-> ""],
      [CertDir |-> "/local/certs", CaCertRemotePath |-> "/old/ca.pem",
       ServerCertRemotePath |-> "/old/server.pem",
       ServerKeyRemotePath |-> "/old/server-key.pem"] }

\* Zero values of the option structs.
NoSwarm == [Discovery |-> "", Env |-> <<>>]
NoAuth ==
    [CertDir |-> "", CaCertRemotePath |-> "", ServerCertRemotePath |-> "",
     ServerKeyRemotePath |-> ""]
NoEngine == [Env |-> <<>>, InstallURL |-> "", StorageDriver |-> ""]

-----------------------------------------------------------------------------
(* Construction *)

\* NewAlpineProvisioner leaving the command executor without its driver.
NewAlpineProvisionerUnboundCommander(d) ==
    [ SSHCommander |-> [Driver |-> [MachineName |-> "", DriverName |-> ""]],
      DockerOptionsDir |-> "/etc/docker",
      DaemonOptionsFile |-> "/etc/conf.d/docker",
      OsReleaseID |-> "alpine",
      Packages |-> <<"docker">>,
      Driver |-> d,
      SwarmOptions |-> NoSwarm,
      AuthOptions |-> NoAuth,
      EngineOptions |-> NoEngine ]

\* NewAlpineProvisioner(d).
NewAlpineProvisioner(d) ==
    [ SSHCommander |-> [Driver |-> d],
      DockerOptionsDir |-> "/etc/docker",
      DaemonOptionsFile |-> "/etc/conf.d/docker",
      OsReleaseID |-> "alpine",
      Packages |-> <<"docker">>,
      Driver |-> d,
      SwarmOptions |-> NoSwarm,
      AuthOptions |-> NoAuth,
      EngineOptions |-> NoEngine ]

\* AlpineProvisioner.String().
String(p) == "alpine"

\* The registry once init() has run: Register("AlpineLinux", ...) with
\* New: NewAlpineProvisioner. A factory is named by the function it is.
Registry == [name \in {"AlpineLinux"} |-> [New |-> "NewAlpineProvisioner"]]

\* The looked-up entry's factory applied to a driver.
ApplyNew(entry, d) ==
    CASE entry.New = "NewAlpineProvisioner" -> NewAlpineProvisioner(d)

\* A provisioner slot before anything was constructed in it.
NoDriver == [MachineName |-> "", DriverName |-> ""]
NoProvisioner ==
    [ SSHCommander |-> [Driver |-> NoDriver],
      DockerOptionsDir |-> "",
      DaemonOptionsFile |-> "",
      OsReleaseID |-> "",
      Packages |-> <<>>,
      Driver |-> NoDriver,
      SwarmOptions |-> NoSwarm,
      AuthOptions |-> NoAuth,
      EngineOptions |-> NoEngine ]

\* The locals of a call that is not running.
NoLocals ==
    [ hostname |-> "", name |-> "", action |-> "", command |-> "",
      pkgIdx |-> 0, swarmOptions |-> NoSwarm, authOptions |-> NoAuth,
      engineOptions |-> NoEngine ]

NoCall ==
    [ op |-> "none", name |-> "", action |-> "", hostname |-> "",
      swarmOptions |-> NoSwarm, authOptions |-> NoAuth, engineOptions |-> NoEngine,
      caller |-> [swarmOptions |-> NoSwarm, engineOptions |-> NoEngine] ]

NoPrev == [top |-> NoCall, log |-> <<>>, result |-> Pending]

Init ==
    /\ \E d1 \in Drivers : \E d2 \in Drivers \ {d1} :
          prov = [i \in Inst |-> NewAlpineProvisioner(IF i = "p1" THEN d1 ELSE d2)]
    /\ pc = [i \in Inst |-> "idle"]
    /\ top = [i \in Inst |-> NoCall]
    /\ loc = [i \in Inst |-> NoLocals]
    /\ log = [i \in Inst |-> <<>>]
    /\ result = [i \in Inst |-> Pending]
    /\ prev = [i \in Inst |-> NoPrev]

-----------------------------------------------------------------------------
(* Events and command strings *)

\* One recorded event: a remote command handed to the command executor, or a
\* call into the generic base or a collaborator. target is the driver it ran
\* against; swarm and auth are the options the callee was given or could read.
Event(kind, cmd, target, swarm, auth, res) ==
    [kind |-> kind, cmd |-> cmd, target |-> target, swarm |-> swarm,
     auth |-> auth, res |-> res]

\* provisioner.SSHCommand(cmd) with outcome r: GenericSSHCommander{Driver: d}.
SSHEvent(p, cmd, r) ==
    Event("SSHCommand", cmd, p.SSHCommander.Driver, NoSwarm, NoAuth, r)

\* The hosts-file cleanup command of SetHostname.
HostsCleanupCommand ==
    "sed /127.0.1.1/d /etc/hosts > /tmp/hosts && cat /tmp/hosts | sudo tee /etc/hosts"

\* fmt.Sprintf(hostnameTmpl, hostname): the hostname-persistence template.
HostnameTmplCommand(hostname) == "hostnameTmpl " \o hostname

\* The rc-service command with its two arguments exchanged.
ServiceCommandSwapped(name, action) ==
    "sudo rc-service " \o ServiceActionString(action) \o " " \o name

\* fmt.Sprintf("sudo rc-service %s %s", name, action.String()).
ServiceCommand(name, action) ==
    "sudo rc-service " \o name \o " " \o ServiceActionString(action)

\* PackageCommand with the Remove case building the add command.
PackageCommandAlwaysAdd(name, action) ==
    CASE action = Install -> "sudo rc-update add " \o name \o " boot"
      [] action = Remove -> "sudo rc-update add " \o name \o " boot"
      [] OTHER -> ""

\* The switch of Package: no case matches Upgrade, and command stays "".
PackageCommand(name, action) ==
    CASE action = Install -> "sudo rc-update add " \o name \o " boot"
      [] action = Remove -> "sudo rc-update del " \o name \o " boot"
      [] OTHER -> ""

UpgradeCommand == "sudo apk upgrade"
RebootCommand == "sudo reboot"

\* fmt.Errorf("Unsupported storage driver: %s", ...).
UnsupportedStorageDriver(sd) == "Unsupported storage driver: " \o sd

\* The resolution without the default, and the check without the error.
ResolveStorageDriverKeep(sd) == sd
StorageDriverErrorNever(sd) == NoError

\* The storage driver resolution of Provision: the value stored, and the error.
DefaultStorageDriver == "overlay"
ResolveStorageDriver(sd) == IF sd = "" THEN DefaultStorageDriver ELSE sd
StorageDriverError(sd) ==
    IF sd # "" /\ sd # DefaultStorageDriver THEN UnsupportedStorageDriver(sd)
    ELSE NoError

\* setRemoteAuthOptions(provisioner): the provisioner's AuthOptions with the
\* remote paths set to the canonical locations under its options directory.
setRemoteAuthOptions(p) ==
    [ p.AuthOptions EXCEPT
        !.CaCertRemotePath = p.DockerOptionsDir \o "/ca.pem",
        !.ServerCertRemotePath = p.DockerOptionsDir \o "/server.pem",
        !.ServerKeyRemotePath = p.DockerOptionsDir \o "/server-key.pem" ]

\* The install URL test with its branches exchanged.
SelectsDockerInverted(engineOptions) ==
    engineOptions.InstallURL = DefaultEngineInstallURL

\* The install URL test taking an empty URL for the default.
SelectsDockerUnlessEmpty(engineOptions) ==
    /\ engineOptions.InstallURL # DefaultEngineInstallURL
    /\ engineOptions.InstallURL # ""

\* Whether Provision runs the engine-selection step.
SelectsDocker(engineOptions) == engineOptions.InstallURL # DefaultEngineInstallURL

\* The branch upgrade() takes for a driver name: the switch has only default.
upgradeBranch(driverName) == "default"

-----------------------------------------------------------------------------
(* Control *)

Emit(i, evs) == log' = [log EXCEPT ![i] = @ \o evs]

Goto(i, label, l) ==
    /\ pc' = [pc EXCEPT ![i] = label]
    /\ loc' = [loc EXCEPT ![i] = l]
    /\ result' = [result EXCEPT ![i] = Pending]

\* The invoked operation returns err to its caller.
Finish(i, err) ==
    /\ pc' = [pc EXCEPT ![i] = "idle"]
    /\ loc' = [loc EXCEPT ![i] = NoLocals]
    /\ result' = [result EXCEPT ![i] = err]

\* A new call starts on an idle provisioner; its log starts empty.
Begin(i, call) ==
    /\ pc[i] = "idle"
    /\ top' = [top EXCEPT ![i] = call]
    /\ log' = [log EXCEPT ![i] = <<>>]

\* The observer remembers the call that was completed before the new one.
Remember(i) ==
    prev' = [prev EXCEPT ![i] = [top |-> top[i], log |-> log[i], result |-> result[i]]]

\* Package(name, action), entered: the docker upgrade goes to upgrade(), every
\* other pair to the SSHCommand of the switch's command.
EnterPackage(i, name, action, l) ==
    IF name = "docker" /\ action = Upgrade
    THEN Goto(i, "upgrade_apk", [l EXCEPT !.name = name, !.action = action])
    ELSE Goto(i, "pkg_ssh",
              [l EXCEPT !.name = name, !.action = action,
                        !.command = PackageCommand(name, action)])

\* Provision after the package loop: engine selection or the options directory.
AfterPackages(i, l) ==
    IF SelectsDocker(l.engineOptions)
    THEN Goto(i, "selectDocker", l)
    ELSE Goto(i, "makeDockerOptionsDir", l)

\* The package loop asking for an upgrade of each package.
PackageLoopUpgrading(i, k, l) ==
    IF k <= Len(prov[i].Packages)
    THEN EnterPackage(i, prov[i].Packages[k], Upgrade, [l EXCEPT !.pkgIdx = k])
    ELSE AfterPackages(i, l)

\* The package loop of Provision at index k.
PackageLoop(i, k, l) ==
    IF k <= Len(prov[i].Packages)
    THEN EnterPackage(i, prov[i].Packages[k], Install, [l EXCEPT !.pkgIdx = k])
    ELSE AfterPackages(i, l)

\* Provision's loop going on after a failed install.
ReturnFromPackageIgnoringError(i, err) ==
    IF top[i].op = "Package"
    THEN Finish(i, err)
    ELSE PackageLoop(i, loc[i].pkgIdx + 1, loc[i])

\* Package returns err: to the caller, or into Provision's loop.
ReturnFromPackage(i, err) ==
    IF top[i].op = "Package" \/ err # NoError
    THEN Finish(i, err)
    ELSE PackageLoop(i, loc[i].pkgIdx + 1, loc[i])

\* SetHostname returns err: to the caller, or into Provision.
ReturnFromSetHostname(i, err) ==
    IF top[i].op = "SetHostname" \/ err # NoError
    THEN Finish(i, err)
    ELSE PackageLoop(i, 1, loc[i])

-----------------------------------------------------------------------------
(* The operations a caller invokes *)

\* The fields of Provision stored with the Env copy made before the swarm
\* options are stored.
ProvisionStoredAfterEnvCopy(p, swarmOptions, authOptions, engineOptions) ==
    [p EXCEPT
        !.SwarmOptions = [swarmOptions EXCEPT !.Env = engineOptions.Env],
        !.AuthOptions = authOptions,
        !.EngineOptions =
            [engineOptions EXCEPT !.StorageDriver = ResolveStorageDriver(@)]]

\* What Provision stores on the provisioner at its entry: the three options,
\* with the storage driver resolved.
ProvisionStored(p, swarmOptions, authOptions, engineOptions) ==
    [p EXCEPT
        !.SwarmOptions = swarmOptions,
        !.AuthOptions = authOptions,
        !.EngineOptions =
            [engineOptions EXCEPT !.StorageDriver = ResolveStorageDriver(@)]]

\* The locals of Provision without the copy of Env.
ProvisionLocalsNoEnvCopy(p, swarmOptions, authOptions, engineOptions) ==
    [NoLocals EXCEPT
        !.swarmOptions = swarmOptions,
        !.authOptions = authOptions,
        !.engineOptions = engineOptions,
        !.hostname = p.Driver.MachineName]

\* The locals of Provision after its entry: swarmOptions.Env = engineOptions.Env,
\* and the hostname is the driver's machine name.
ProvisionLocals(p, swarmOptions, authOptions, engineOptions) ==
    [NoLocals EXCEPT
        !.swarmOptions = [swarmOptions EXCEPT !.Env = engineOptions.Env],
        !.authOptions = authOptions,
        !.engineOptions = engineOptions,
        !.hostname = p.Driver.MachineName]

\* The derived auth options not stored on the provisioner.
StoreRemoteAuthOptionsSkipped(p) == p

\* provisioner.AuthOptions = setRemoteAuthOptions(provisioner).
StoreRemoteAuthOptions(p) == [p EXCEPT !.AuthOptions = setRemoteAuthOptions(p)]

\* The caller's variables with Provision writing through to them.
CallerAfterEntryByReference(swarmOptions, engineOptions) ==
    [ swarmOptions |-> [swarmOptions EXCEPT !.Env = engineOptions.Env],
      engineOptions |->
          [engineOptions EXCEPT !.StorageDriver = ResolveStorageDriver(@)] ]

\* What the caller's own swarm and engine options hold once Provision was
\* entered: both structs are passed by value, so the assignment to
\* swarmOptions.Env and the storage driver default reach copies only.
CallerAfterEntry(swarmOptions, engineOptions) ==
    [swarmOptions |-> swarmOptions, engineOptions |-> engineOptions]

\* Provision storing its options in every provisioner, as if the option
\* fields were shared between the instances.
ProvisionSharingOptions(i, swarmOptions, authOptions, engineOptions) ==
    /\ Begin(i, [NoCall EXCEPT !.op = "Provision", !.swarmOptions = swarmOptions,
                               !.authOptions = authOptions,
                               !.engineOptions = engineOptions,
                               !.caller = CallerAfterEntry(swarmOptions, engineOptions)])
    /\ prov' = [j \in Inst |->
                   ProvisionStored(prov[j], swarmOptions, authOptions, engineOptions)]
    /\ LET err == StorageDriverError(engineOptions.StorageDriver)
       IN  IF err # NoError THEN Finish(i, err)
           ELSE Goto(i, "sh_cleanup",
                     ProvisionLocals(prov[i], swarmOptions, authOptions, engineOptions))

\* Provision taking up after the hostname step when an earlier call on the
\* same provisioner has stored its options.
ProvisionResuming(i, swarmOptions, authOptions, engineOptions) ==
    /\ Begin(i, [NoCall EXCEPT !.op = "Provision", !.swarmOptions = swarmOptions,
                               !.authOptions = authOptions,
                               !.engineOptions = engineOptions,
                               !.caller = CallerAfterEntry(swarmOptions, engineOptions)])
    /\ prov' = [prov EXCEPT ![i] =
                   ProvisionStored(prov[i], swarmOptions, authOptions, engineOptions)]
    /\ LET err == StorageDriverError(engineOptions.StorageDriver)
           l == ProvisionLocals(prov[i], swarmOptions, authOptions, engineOptions)
       IN  IF err # NoError THEN Finish(i, err)
           ELSE IF prov[i].SwarmOptions # NoSwarm THEN PackageLoop(i, 1, l)
           ELSE Goto(i, "sh_cleanup", l)

\* Provision, from its entry to the first remote command: the options are
\* stored on the provisioner, Env is copied onto the local swarmOptions, the
\* storage driver is resolved, and SetHostname is entered.
Provision(i, swarmOptions, authOptions, engineOptions) ==
    /\ Begin(i, [NoCall EXCEPT !.op = "Provision", !.swarmOptions = swarmOptions,
                               !.authOptions = authOptions,
                               !.engineOptions = engineOptions,
                               !.caller = CallerAfterEntry(swarmOptions, engineOptions)])
    /\ prov' = [prov EXCEPT ![i] =
                   ProvisionStored(prov[i], swarmOptions, authOptions, engineOptions)]
    /\ LET err == StorageDriverError(engineOptions.StorageDriver)
       IN  IF err # NoError THEN Finish(i, err)
           ELSE Goto(i, "sh_cleanup",
                     ProvisionLocals(prov[i], swarmOptions, authOptions, engineOptions))

\* SetHostname(hostname), entered by a caller.
SetHostname(i, hostname) ==
    /\ Begin(i, [NoCall EXCEPT !.op = "SetHostname", !.hostname = hostname])
    /\ Goto(i, "sh_cleanup", [NoLocals EXCEPT !.hostname = hostname])
    /\ UNCHANGED prov

\* Package(name, action), entered by a caller.
Package(i, name, action) ==
    /\ Begin(i, [NoCall EXCEPT !.op = "Package", !.name = name, !.action = action])
    /\ EnterPackage(i, name, action, NoLocals)
    /\ UNCHANGED prov

\* Service(name, action), entered by a caller.
Service(i, name, action) ==
    /\ Begin(i, [NoCall EXCEPT !.op = "Service", !.name = name, !.action = action])
    /\ Goto(i, "svc_ssh",
            [NoLocals EXCEPT !.name = name, !.action = action,
                             !.command = ServiceCommand(name, action)])
    /\ UNCHANGED prov

-----------------------------------------------------------------------------
(* The blocking steps *)

\* The cleanup command with its error dropped.
SetHostnameCleanupIgnoringError(i) ==
    /\ pc[i] = "sh_cleanup"
    /\ \E r \in Outcomes :
          /\ Emit(i, <<SSHEvent(prov[i], HostsCleanupCommand, r)>>)
          /\ Goto(i, "sh_generic", loc[i])
    /\ UNCHANGED <<prov, top, prev>>

\* SetHostname: the hosts-file cleanup command.
SetHostnameCleanup(i) ==
    /\ pc[i] = "sh_cleanup"
    /\ \E r \in Outcomes :
          /\ Emit(i, <<SSHEvent(prov[i], HostsCleanupCommand, r)>>)
          /\ IF r # NoError THEN ReturnFromSetHostname(i, r)
             ELSE Goto(i, "sh_generic", loc[i])
    /\ UNCHANGED <<prov, top, prev>>

\* SetHostname: provisioner.GenericProvisioner.SetHostname(hostname).
SetHostnameGeneric(i) ==
    /\ pc[i] = "sh_generic"
    /\ \E r \in Outcomes :
          /\ Emit(i, <<Event("GenericSetHostname", loc[i].hostname,
                             prov[i].SSHCommander.Driver, NoSwarm, NoAuth, r)>>)
          /\ IF r # NoError THEN ReturnFromSetHostname(i, r)
             ELSE Goto(i, "sh_tmpl", loc[i])
    /\ UNCHANGED <<prov, top, prev>>

\* SetHostname: the hostname-persistence command, and the return.
SetHostnameTmpl(i) ==
    /\ pc[i] = "sh_tmpl"
    /\ \E r \in Outcomes :
          /\ Emit(i, <<SSHEvent(prov[i], HostnameTmplCommand(loc[i].hostname), r)>>)
          /\ ReturnFromSetHostname(i, r)
    /\ UNCHANGED <<prov, top, prev>>

\* Package: the SSHCommand of the command the switch built, and the return.
PackageSSH(i) ==
    /\ pc[i] = "pkg_ssh"
    /\ \E r \in Outcomes :
          /\ Emit(i, <<SSHEvent(prov[i], loc[i].command, r)>>)
          /\ ReturnFromPackage(i, r)
    /\ UNCHANGED <<prov, top, prev>>

\* upgrade() with a branch of its own for one driver name.
UpgradeApkByDriver(i) ==
    /\ pc[i] = "upgrade_apk"
    /\ \E r \in Outcomes :
          /\ Emit(i, <<SSHEvent(prov[i],
                                IF prov[i].Driver.DriverName = "amazonec2"
                                THEN "sudo apk update" ELSE UpgradeCommand, r)>>)
          /\ IF r # NoError THEN ReturnFromPackage(i, r)
             ELSE Goto(i, "upgrade_reboot", loc[i])
    /\ UNCHANGED <<prov, top, prev>>

\* upgrade(): "sudo apk upgrade"; its error is returned.
UpgradeApk(i) ==
    /\ pc[i] = "upgrade_apk"
    /\ upgradeBranch(prov[i].Driver.DriverName) = "default"
    /\ \E r \in Outcomes :
          /\ Emit(i, <<SSHEvent(prov[i], UpgradeCommand, r)>>)
          /\ IF r # NoError THEN ReturnFromPackage(i, r)
             ELSE Goto(i, "upgrade_reboot", loc[i])
    /\ UNCHANGED <<prov, top, prev>>

\* The reboot with its error returned.
UpgradeRebootReturningError(i) ==
    /\ pc[i] = "upgrade_reboot"
    /\ \E r \in Outcomes :
          /\ Emit(i, <<SSHEvent(prov[i], RebootCommand, r)>>)
          /\ ReturnFromPackage(i, r)
    /\ UNCHANGED <<prov, top, prev>>

\* upgrade(): "sudo reboot", whose error is ignored; upgrade returns nil.
UpgradeReboot(i) ==
    /\ pc[i] = "upgrade_reboot"
    /\ \E r \in Outcomes :
          /\ Emit(i, <<SSHEvent(prov[i], RebootCommand, r)>>)
          /\ ReturnFromPackage(i, NoError)
    /\ UNCHANGED <<prov, top, prev>>

\* Service issuing its command again after a failure.
ServiceSSHRetrying(i) ==
    /\ pc[i] = "svc_ssh"
    /\ \E r \in Outcomes :
          /\ Emit(i, <<SSHEvent(prov[i], loc[i].command, r)>>)
          /\ IF r # NoError THEN Goto(i, "svc_ssh", loc[i]) ELSE Finish(i, r)
    /\ UNCHANGED <<prov, top, prev>>

\* Service: the SSHCommand of the rc-service command, and the return.
ServiceSSH(i) ==
    /\ pc[i] = "svc_ssh"
    /\ \E r \in Outcomes :
          /\ Emit(i, <<SSHEvent(prov[i], loc[i].command, r)>>)
          /\ Finish(i, r)
    /\ UNCHANGED <<prov, top, prev>>

\* Provision: selectDocker(provisioner, engineOptions.InstallURL).
SelectDocker(i) ==
    /\ pc[i] = "selectDocker"
    /\ \E r \in Outcomes :
          /\ Emit(i, <<Event("selectDocker", loc[i].engineOptions.InstallURL,
                             prov[i].SSHCommander.Driver, NoSwarm, NoAuth, r)>>)
          /\ IF r # NoError THEN Finish(i, r)
             ELSE Goto(i, "makeDockerOptionsDir", loc[i])
    /\ UNCHANGED <<prov, top, prev>>

\* Provision: makeDockerOptionsDir(provisioner); on success the remote auth
\* options are derived and stored on the provisioner.
MakeDockerOptionsDir(i) ==
    /\ pc[i] = "makeDockerOptionsDir"
    /\ \E r \in Outcomes :
          LET mk == Event("makeDockerOptionsDir", prov[i].DockerOptionsDir,
                          prov[i].SSHCommander.Driver, NoSwarm, NoAuth, r)
          IN  IF r # NoError
              THEN /\ Emit(i, <<mk>>)
                   /\ Finish(i, r)
                   /\ UNCHANGED prov
              ELSE /\ Emit(i, <<mk, Event("setRemoteAuthOptions", "",
                                          prov[i].SSHCommander.Driver, NoSwarm,
                                          setRemoteAuthOptions(prov[i]), NoError)>>)
                   /\ prov' = [prov EXCEPT ![i] = StoreRemoteAuthOptions(prov[i])]
                   /\ Goto(i, "ConfigureAuth", loc[i])
    /\ UNCHANGED <<top, prev>>

\* Provision: ConfigureAuth(provisioner), which reads the provisioner's
\* AuthOptions.
ConfigureAuth(i) ==
    /\ pc[i] = "ConfigureAuth"
    /\ \E r \in Outcomes :
          /\ Emit(i, <<Event("ConfigureAuth", "", prov[i].SSHCommander.Driver,
                             NoSwarm, prov[i].AuthOptions, r)>>)
          /\ IF r # NoError THEN Finish(i, r)
             ELSE Goto(i, "configureSwarm", loc[i])
    /\ UNCHANGED <<prov, top, prev>>

\* configureSwarm called again after a failure.
ConfigureSwarmRetrying(i) ==
    /\ pc[i] = "configureSwarm"
    /\ \E r \in Outcomes :
          /\ Emit(i, <<Event("configureSwarm", "", prov[i].SSHCommander.Driver,
                             loc[i].swarmOptions, prov[i].AuthOptions, r)>>)
          /\ IF r # NoError THEN Goto(i, "configureSwarm", loc[i]) ELSE Finish(i, r)
    /\ UNCHANGED <<prov, top, prev>>

\* Provision: configureSwarm(provisioner, swarmOptions, provisioner.AuthOptions),
\* whose error is Provision's result.
ConfigureSwarm(i) ==
    /\ pc[i] = "configureSwarm"
    /\ \E r \in Outcomes :
          /\ Emit(i, <<Event("configureSwarm", "", prov[i].SSHCommander.Driver,
                             loc[i].swarmOptions, prov[i].AuthOptions, r)>>)
          /\ Finish(i, r)
    /\ UNCHANGED <<prov, top, prev>>

-----------------------------------------------------------------------------
(* The specifications *)

\* The steps of a running call.
Step(i) ==
    \/ SetHostnameCleanup(i)
    \/ SetHostnameGeneric(i)
    \/ SetHostnameTmpl(i)
    \/ PackageSSH(i)
    \/ UpgradeApk(i)
    \/ UpgradeReboot(i)
    \/ ServiceSSH(i)
    \/ SelectDocker(i)
    \/ MakeDockerOptionsDir(i)
    \/ ConfigureAuth(i)
    \/ ConfigureSwarm(i)

\* Spec: one provisioner, called again and again with any arguments.
Next ==
    \E i \in Active :
        \/ \E sw \in SwarmInputs, au \in AuthInputs, en \in EngineInputs :
              Provision(i, sw, au, en) /\ UNCHANGED prev
        \/ \E h \in Hostnames : SetHostname(i, h) /\ UNCHANGED prev
        \/ \E n \in PkgNames, a \in PackageActions :
              Package(i, n, a) /\ UNCHANGED prev
        \/ \E n \in ServiceNames, a \in ServiceActions :
              Service(i, n, a) /\ UNCHANGED prev
        \/ Step(i)

Spec == Init /\ [][Next]_vars

\* SpecSeq: one provisioner on which the caller invokes Package, SetHostname
\* and Service one after another; the call completed before the current one
\* is remembered in prev.
NextSeq ==
    \E i \in Active :
        \/ \E h \in Hostnames : SetHostname(i, h) /\ Remember(i)
        \/ \E n \in PkgNames, a \in PackageActions : Package(i, n, a) /\ Remember(i)
        \/ \E n \in ServiceNames, a \in ServiceActions :
              Service(i, n, a) /\ Remember(i)
        \/ SetHostnameCleanup(i)
        \/ SetHostnameGeneric(i)
        \/ SetHostnameTmpl(i)
        \/ PackageSSH(i)
        \/ UpgradeApk(i)
        \/ UpgradeReboot(i)
        \/ ServiceSSH(i)

SpecSeq == Init /\ [][NextSeq]_vars

\* SpecRegistry: provisioners are made by looking a name up in the registry
\* and applying the factory found to a driver; the provisioner made is then
\* called with SetHostname, Package and Service.
InitRegistry ==
    /\ prov = [i \in Inst |-> NoProvisioner]
    /\ pc = [i \in Inst |-> "idle"]
    /\ top = [i \in Inst |-> NoCall]
    /\ loc = [i \in Inst |-> NoLocals]
    /\ log = [i \in Inst |-> <<>>]
    /\ result = [i \in Inst |-> Pending]
    /\ prev = [i \in Inst |-> NoPrev]

\* Lookup of name and construction for driver d; the log notes the driver given.
New(i, name, d) ==
    /\ pc[i] = "idle"
    /\ name \in DOMAIN Registry
    /\ prov' = [prov EXCEPT ![i] = ApplyNew(Registry[name], d)]
    /\ top' = [top EXCEPT ![i] = [NoCall EXCEPT !.op = "New", !.name = name]]
    /\ log' = [log EXCEPT ![i] = <<Event("New", name, d, NoSwarm, NoAuth, NoError)>>]
    /\ result' = [result EXCEPT ![i] = NoError]
    /\ UNCHANGED <<pc, loc, prev>>

Constructed(i) == prov[i] # NoProvisioner

NextRegistry ==
    \E i \in Inst :
        \/ \E name \in DOMAIN Registry, d \in Drivers : New(i, name, d)
        \/ \E h \in Hostnames : Constructed(i) /\ SetHostname(i, h) /\ UNCHANGED prev
        \/ \E n \in PkgNames, a \in PackageActions :
              Constructed(i) /\ Package(i, n, a) /\ UNCHANGED prev
        \/ \E n \in ServiceNames, a \in ServiceActions :
              Constructed(i) /\ Service(i, n, a) /\ UNCHANGED prev
        \/ SetHostnameCleanup(i)
        \/ SetHostnameGeneric(i)
        \/ SetHostnameTmpl(i)
        \/ PackageSSH(i)
        \/ UpgradeApk(i)
        \/ UpgradeReboot(i)
        \/ ServiceSSH(i)

SpecRegistry == InitRegistry /\ [][NextRegistry]_vars

\* SpecRetry: one provisioner on which Provision is called again and again,
\* the call completed before the current one remembered in prev.
RetrySwarmInputs == [Discovery : {"token://t"}, Env : {<<>>}]
RetryAuthInputs ==
    { [CertDir |-> "/local/certs", CaCertRemotePath |-> "",
       ServerCertRemotePath |-> "", ServerKeyRemotePath |-> ""] }
RetryEngineInputs ==
    [ Env : {<<"HTTP_PROXY=proxy:3128">>},
      InstallURL : {DefaultEngineInstallURL, "https://test.docker.com"},
      StorageDriver : {"", "btrfs"} ]

NextRetry ==
    \E i \in Active :
        \/ \E sw \in RetrySwarmInputs, au \in RetryAuthInputs, en \in RetryEngineInputs :
              Provision(i, sw, au, en) /\ Remember(i)
        \/ SetHostnameCleanup(i)
        \/ SetHostnameGeneric(i)
        \/ SetHostnameTmpl(i)
        \/ PackageSSH(i)
        \/ SelectDocker(i)
        \/ MakeDockerOptionsDir(i)
        \/ ConfigureAuth(i)
        \/ ConfigureSwarm(i)

SpecRetry == Init /\ [][NextRetry]_vars

\* SpecConc: two provisioners with distinct drivers, each running Provision
\* calls of its own; the steps of the two calls interleave in any order.
ConcSwarmInputs(i) == [Discovery : {"token://" \o i}, Env : {<<>>}]
ConcEngineInputs ==
    [ Env : {<<"HTTP_PROXY=proxy:3128">>},
      InstallURL : InstallURLs,
      StorageDriver : {"", "btrfs"} ]

NextConc ==
    \E i \in Inst :
        \/ \E sw \in ConcSwarmInputs(i), au \in AuthInputs, en \in ConcEngineInputs :
              Provision(i, sw, au, en) /\ UNCHANGED prev
        \/ SetHostnameCleanup(i)
        \/ SetHostnameGeneric(i)
        \/ SetHostnameTmpl(i)
        \/ PackageSSH(i)
        \/ SelectDocker(i)
        \/ MakeDockerOptionsDir(i)
        \/ ConfigureAuth(i)
        \/ ConfigureSwarm(i)

SpecConc == Init /\ [][NextConc]_vars

\* SpecLive: Provision calls on one provisioner, where a remote command or a
\* collaborator call either returns or never does. No call of Provision has
\* a timeout or is cancelled: a call that never returns leaves Provision
\* where it is for good.
Hang(i) ==
    /\ pc[i] \notin {"idle", "hung"}
    /\ pc' = [pc EXCEPT ![i] = "hung"]
    /\ UNCHANGED <<prov, top, loc, log, result, prev>>

\* The blocking calls of Provision, each returning.
ProvisionStep(i) ==
    \/ SetHostnameCleanup(i)
    \/ SetHostnameGeneric(i)
    \/ SetHostnameTmpl(i)
    \/ PackageSSH(i)
    \/ SelectDocker(i)
    \/ MakeDockerOptionsDir(i)
    \/ ConfigureAuth(i)
    \/ ConfigureSwarm(i)

NextLive ==
    \E i \in Active :
        \/ \E sw \in SwarmInputs, au \in AuthInputs, en \in EngineInputs :
              Provision(i, sw, au, en) /\ UNCHANGED prev
        \/ ProvisionStep(i)
        \/ Hang(i)

\* A call that was issued and does not hang returns: the remote side answers.
SpecLive == Init /\ [][NextLive]_vars /\ \A i \in Active : WF_vars(ProvisionStep(i))

\* SpecPair: two provisioners whose drivers differ in DriverName() only, each
\* called with Package again and again.
PairDrivers ==
    { [MachineName |-> "alpha", DriverName |-> "virtualbox"],
      [MachineName |-> "alpha", DriverName |-> "amazonec2"] }

InitPair ==
    /\ \E d1 \in PairDrivers : \E d2 \in PairDrivers \ {d1} :
          prov = [i \in Inst |-> NewAlpineProvisioner(IF i = "p1" THEN d1 ELSE d2)]
    /\ pc = [i \in Inst |-> "idle"]
    /\ top = [i \in Inst |-> NoCall]
    /\ loc = [i \in Inst |-> NoLocals]
    /\ log = [i \in Inst |-> <<>>]
    /\ result = [i \in Inst |-> Pending]
    /\ prev = [i \in Inst |-> NoPrev]

NextPair ==
    \E i \in Inst :
        \/ \E n \in PkgNames, a \in PackageActions : Package(i, n, a) /\ UNCHANGED prev
        \/ PackageSSH(i)
        \/ UpgradeApk(i)
        \/ UpgradeReboot(i)

SpecPair == InitPair /\ [][NextPair]_vars

-----------------------------------------------------------------------------
(* What the claims are stated in *)

IsIdle(i) == pc[i] = "idle"
InProvision(i) == top[i].op = "Provision"
SupportedDriver(sd) == sd = "" \/ sd = "overlay"

\* An event with its outcome set to success.
Succeeded(e) == [e EXCEPT !.res = NoError]
AllSucceeded(lg) == \A k \in 1..Len(lg) : lg[k].res = NoError

\* A remote command that succeeded on driver d.
Cmd(d, text) == Event("SSHCommand", text, d, NoSwarm, NoAuth, NoError)

\* The three events of SetHostname(h) on driver d, all succeeding.
ExpectedSetHostname(d, h) ==
    << Cmd(d, "sed /127.0.1.1/d /etc/hosts > /tmp/hosts && cat /tmp/hosts | sudo tee /etc/hosts"),
       Event("GenericSetHostname", h, d, NoSwarm, NoAuth, NoError),
       Cmd(d, "hostnameTmpl " \o h) >>

\* The caller's auth options with the remote paths rewritten.
RemoteAuth(au) ==
    [ CertDir |-> au.CertDir,
      CaCertRemotePath |-> "/etc/docker/ca.pem",
      ServerCertRemotePath |-> "/etc/docker/server.pem",
      ServerKeyRemotePath |-> "/etc/docker/server-key.pem" ]

\* The events of a Provision call in which every step succeeds, for a
\* provisioner p and the caller's arguments.
ExpectedProvision(p, sw, au, en) ==
    ExpectedSetHostname(p.Driver, p.Driver.MachineName)
    \o [k \in 1..Len(p.Packages) |->
            Cmd(p.Driver, "sudo rc-update add " \o p.Packages[k] \o " boot")]
    \o (IF en.InstallURL # "https://get.docker.com"
        THEN <<Event("selectDocker", en.InstallURL, p.Driver, NoSwarm, NoAuth, NoError)>>
        ELSE <<>>)
    \o << Event("makeDockerOptionsDir", "/etc/docker", p.Driver, NoSwarm, NoAuth, NoError),
          Event("setRemoteAuthOptions", "", p.Driver, NoSwarm, RemoteAuth(au), NoError),
          Event("ConfigureAuth", "", p.Driver, NoSwarm, RemoteAuth(au), NoError),
          Event("configureSwarm", "", p.Driver,
                [Discovery |-> sw.Discovery, Env |-> en.Env], RemoteAuth(au), NoError) >>

ExpectedOf(i) ==
    ExpectedProvision(prov[i], top[i].swarmOptions, top[i].authOptions,
                      top[i].engineOptions)

\* lg follows expected event by event, outcomes aside.
Follows(lg, expected) ==
    /\ Len(lg) <= Len(expected)
    /\ \A k \in 1..Len(lg) : Succeeded(lg[k]) = expected[k]

\* Only the last event of lg may have failed; once it has, the call is over
\* and returned that event's error; a call that is over without a failed event
\* issued all of expected and returned nil.
FailFast(lg, expected, done, res) ==
    /\ Follows(lg, expected)
    /\ \A k \in 1..Len(lg) : lg[k].res # NoError => k = Len(lg) /\ done /\ res = lg[k].res
    /\ (done /\ AllSucceeded(lg)) => (Len(lg) = Len(expected) /\ res = NoError)

\* The errors the storage driver check can return.
UnsupportedErrors == {"Unsupported storage driver: " \o sd : sd \in StorageDrivers}

-----------------------------------------------------------------------------
(* C1..C10 *)

\* C1: in a Provision call with storage driver "" or "overlay" in which every
\* remote command and collaborator call succeeds, the events are, once each and
\* in this order: hosts-file cleanup, generic SetHostname with the machine name,
\* hostname persistence, one rc-update add per entry of Packages, selectDocker
\* iff the install URL is not the default, the options directory, the remote
\* auth options, ConfigureAuth, configureSwarm; and nothing else. While the call
\* runs the events so far are a prefix of that sequence.
C1_ProvisionOrder ==
    \A i \in Inst :
        (InProvision(i) /\ SupportedDriver(top[i].engineOptions.StorageDriver)
           /\ AllSucceeded(log[i]))
        => /\ Follows(log[i], ExpectedOf(i))
           /\ IsIdle(i) => (log[i] = ExpectedOf(i) /\ result[i] = NoError)

C1_Witness ==
    \E i \in Inst :
        /\ InProvision(i) /\ IsIdle(i) /\ result[i] = NoError
        /\ top[i].engineOptions.InstallURL = "https://test.docker.com"
        /\ Len(log[i]) = 9
        /\ log[i][5].kind = "selectDocker"

\* C2: Provision is fail-fast: whatever step fails, Provision returns that
\* step's error unchanged and issues nothing more; the events before and
\* including the failed one follow the all-success sequence of the same
\* arguments.
C2_ProvisionFailFast ==
    \A i \in Inst :
        (InProvision(i) /\ SupportedDriver(top[i].engineOptions.StorageDriver))
        => FailFast(log[i], ExpectedOf(i), IsIdle(i), result[i])

C2_Witness ==
    \E i \in Inst :
        /\ InProvision(i) /\ IsIdle(i)
        /\ Len(log[i]) = 4
        /\ log[i][4].cmd = "sudo rc-update add docker boot"
        /\ log[i][4].res = "exit status 2"
        /\ result[i] = "exit status 2"

\* C3: Provision with a non-empty storage driver other than "overlay" returns
\* the unsupported-driver error and issues no remote command and no
\* collaborator call.
C3_UnsupportedDriver ==
    \A i \in Inst :
        (InProvision(i) /\ ~SupportedDriver(top[i].engineOptions.StorageDriver))
        => /\ IsIdle(i)
           /\ log[i] = <<>>
           /\ result[i] = "Unsupported storage driver: " \o top[i].engineOptions.StorageDriver

C3_Witness ==
    \E i \in Inst :
        /\ InProvision(i) /\ IsIdle(i)
        /\ top[i].engineOptions.StorageDriver = "btrfs"
        /\ result[i] = "Unsupported storage driver: btrfs"
        /\ log[i] = <<>>

\* C4: Provision with storage driver "" never returns the unsupported-driver
\* error, and from the resolution on the provisioner's EngineOptions carry
\* "overlay", which no later step of the call changes.
C4_DefaultDriver ==
    \A i \in Inst :
        (InProvision(i) /\ top[i].engineOptions.StorageDriver = "")
        => /\ prov[i].EngineOptions.StorageDriver = "overlay"
           /\ result[i] \notin UnsupportedErrors

C4_Witness ==
    \E i \in Inst :
        /\ InProvision(i) /\ IsIdle(i)
        /\ top[i].engineOptions.StorageDriver = ""
        /\ prov[i].EngineOptions.StorageDriver = "overlay"
        /\ result[i] = NoError
        /\ Len(log[i]) >= 8

\* C5: whenever Provision calls ConfigureAuth or configureSwarm, the
\* AuthOptions the collaborator sees are those setRemoteAuthOptions produced
\* earlier in the same call, with the remote paths rewritten, and not the
\* caller's authOptions.
C5_RemoteAuthOnly ==
    \A i \in Inst :
        InProvision(i) =>
            \A k \in 1..Len(log[i]) :
                log[i][k].kind \in {"ConfigureAuth", "configureSwarm"}
                => /\ \E j \in 1..(k - 1) :
                         /\ log[i][j].kind = "setRemoteAuthOptions"
                         /\ log[i][j].auth = log[i][k].auth
                   /\ log[i][k].auth = RemoteAuth(top[i].authOptions)
                   /\ log[i][k].auth # top[i].authOptions

C5_Witness ==
    \E i \in Inst :
        /\ InProvision(i)
        /\ top[i].authOptions.CaCertRemotePath = "/old/ca.pem"
        /\ \E k \in 1..Len(log[i]) :
              /\ log[i][k].kind = "configureSwarm"
              /\ log[i][k].auth.CaCertRemotePath = "/etc/docker/ca.pem"
              /\ log[i][k - 1].kind = "ConfigureAuth"

\* C6: SetHostname(hostname) issues the hosts-file cleanup command, then the
\* generic SetHostname(hostname), then the hostname-persistence command for
\* the same hostname; a failed sub-step ends the call with that sub-step's
\* error and the later sub-steps are not issued.
C6_SetHostname ==
    \A i \in Inst :
        top[i].op = "SetHostname"
        => FailFast(log[i], ExpectedSetHostname(prov[i].Driver, top[i].hostname),
                    IsIdle(i), result[i])

C6_Witness ==
    \E i \in Inst :
        /\ top[i].op = "SetHostname" /\ IsIdle(i)
        /\ top[i].hostname = "newname"
        /\ Len(log[i]) = 2
        /\ log[i][2].kind = "GenericSetHostname"
        /\ log[i][2].res = "exit status 1"
        /\ result[i] = "exit status 1"

\* C7: Package("docker", Upgrade) issues no rc-update command; it issues "sudo
\* apk upgrade"; if that fails its error is returned and no reboot is issued;
\* if it succeeds exactly one "sudo reboot" follows and the call returns nil
\* whether the reboot succeeds or fails.
C7_DockerUpgrade ==
    \A i \in Inst :
        (top[i].op = "Package" /\ top[i].name = "docker" /\ top[i].action = "Upgrade")
        => /\ Len(log[i]) <= 2
           /\ \A k \in 1..Len(log[i]) :
                 /\ log[i][k].kind = "SSHCommand"
                 /\ log[i][k].cmd = IF k = 1 THEN "sudo apk upgrade" ELSE "sudo reboot"
           /\ Len(log[i]) = 2 => log[i][1].res = NoError
           /\ IsIdle(i) =>
                 \/ /\ Len(log[i]) = 1
                    /\ log[i][1].res # NoError
                    /\ result[i] = log[i][1].res
                 \/ /\ Len(log[i]) = 2
                    /\ result[i] = NoError

C7_Witness ==
    \E i \in Inst :
        /\ top[i].op = "Package" /\ top[i].name = "docker" /\ top[i].action = "Upgrade"
        /\ IsIdle(i)
        /\ Len(log[i]) = 2
        /\ log[i][2].cmd = "sudo reboot"
        /\ log[i][2].res = "exit status 1"
        /\ result[i] = NoError

\* C8: for every package name and every PackageAction, Package never hands an
\* empty command string to the command executor.
C8_NoEmptyCommand ==
    \A i \in Inst :
        top[i].op = "Package"
        => \A k \in 1..Len(log[i]) :
              log[i][k].kind = "SSHCommand" => log[i][k].cmd # ""

\* C9: Package(name, Install) followed by Package(name, Remove) issues exactly
\* two remote commands: "sudo rc-update add <name> boot", then "sudo rc-update
\* del <name> boot".
C9_InstallThenRemove ==
    \A i \in Inst :
        ( /\ prev[i].top.op = "Package" /\ prev[i].top.action = "Install"
          /\ top[i].op = "Package" /\ top[i].action = "Remove"
          /\ top[i].name = prev[i].top.name
          /\ IsIdle(i) )
        => LET issued == prev[i].log \o log[i]
           IN  /\ Len(issued) = 2
               /\ issued[1].kind = "SSHCommand"
               /\ issued[1].cmd = "sudo rc-update add " \o top[i].name \o " boot"
               /\ issued[2].kind = "SSHCommand"
               /\ issued[2].cmd = "sudo rc-update del " \o top[i].name \o " boot"

C9_Witness ==
    \E i \in Inst :
        /\ prev[i].top.op = "Package" /\ prev[i].top.action = "Install"
        /\ prev[i].top.name = "nginx"
        /\ top[i].op = "Package" /\ top[i].action = "Remove" /\ top[i].name = "nginx"
        /\ IsIdle(i)
        /\ Len(prev[i].log) = 1 /\ Len(log[i]) = 1
        /\ log[i][1].cmd = "sudo rc-update del nginx boot"

\* C10: in every Provision call that reaches the swarm step, the swarmOptions
\* handed to configureSwarm have Env equal to the caller's engineOptions.Env,
\* whatever Env the caller's swarmOptions carried.
C10_SwarmEnv ==
    \A i \in Inst :
        InProvision(i) =>
            \A k \in 1..Len(log[i]) :
                log[i][k].kind = "configureSwarm"
                => log[i][k].swarm.Env = top[i].engineOptions.Env

C10_Witness ==
    \E i \in Inst :
        /\ InProvision(i)
        /\ top[i].swarmOptions.Env = <<>>
        /\ top[i].engineOptions.Env = <<"HTTP_PROXY=proxy:3128">>
        /\ \E k \in 1..Len(log[i]) :
              /\ log[i][k].kind = "configureSwarm"
              /\ log[i][k].swarm.Env = <<"HTTP_PROXY=proxy:3128">>

-----------------------------------------------------------------------------
(* C11..C20 *)

\* The positions of log[i] that hold an event of the given kind.
Positions(i, kind) == {k \in 1..Len(log[i]) : log[i][k].kind = kind}

\* C11: Provision calls selectDocker with the caller's install URL iff that
\* URL differs from the default install URL (an empty URL differs); it calls
\* it at most once, after every package install and before the options
\* directory is made; with the default URL it never calls it.
C11_SelectDocker ==
    \A i \in Inst :
        InProvision(i) =>
            LET url == top[i].engineOptions.InstallURL
                installs == Len(prov[i].Packages)
            IN  /\ Cardinality(Positions(i, "selectDocker")) <= 1
                /\ \A k \in Positions(i, "selectDocker") :
                      /\ url # "https://get.docker.com"
                      /\ log[i][k].cmd = url
                      /\ k = 3 + installs + 1
                      /\ \A j \in 4..(k - 1) :
                            log[i][j].cmd = "sudo rc-update add " \o prov[i].Packages[j - 3] \o " boot"
                      /\ \A j \in 1..k : log[i][j].kind # "makeDockerOptionsDir"
                /\ \A m \in Positions(i, "makeDockerOptionsDir") :
                      url # "https://get.docker.com" => log[i][m - 1].kind = "selectDocker"
                /\ url = "https://get.docker.com" => Positions(i, "selectDocker") = {}

C11_Witness ==
    \E i \in Inst :
        /\ InProvision(i)
        /\ top[i].engineOptions.InstallURL = ""
        /\ Len(log[i]) >= 6
        /\ log[i][4].cmd = "sudo rc-update add docker boot"
        /\ log[i][5].kind = "selectDocker" /\ log[i][5].cmd = ""
        /\ log[i][6].kind = "makeDockerOptionsDir"

\* C12: in Service, Package, SetHostname, upgrade and Provision a failed
\* remote command ends the operation with that command's error, except the
\* "sudo reboot" after an upgrade, after which nil is returned; nothing is
\* issued after a failed command, so no command is tried again.
C12_ErrorsPropagate ==
    \A i \in Inst :
        \A k \in 1..Len(log[i]) :
            log[i][k].res # NoError
            => /\ k = Len(log[i])
               /\ IsIdle(i)
               /\ IF log[i][k].kind = "SSHCommand" /\ log[i][k].cmd = "sudo reboot"
                  THEN result[i] = NoError
                  ELSE result[i] = log[i][k].res

C12_Witness ==
    \E i \in Inst :
        /\ InProvision(i) /\ IsIdle(i)
        /\ Len(log[i]) = 3
        /\ log[i][3].cmd = "hostnameTmpl " \o prov[i].Driver.MachineName
        /\ log[i][3].res = "exit status 1"
        /\ result[i] = "exit status 1"

\* The lowercase token of a service action.
Token(action) ==
    IF action = "Start" THEN "start" ELSE IF action = "Stop" THEN "stop" ELSE "restart"

\* C18: Service(name, action) issues exactly one remote command, "sudo
\* rc-service <name> <action token>", and returns that command's error if it
\* fails and nil if it succeeds.
C18_Service ==
    \A i \in Inst :
        top[i].op = "Service"
        => IF IsIdle(i)
           THEN /\ Len(log[i]) = 1
                /\ log[i][1].kind = "SSHCommand"
                /\ log[i][1].cmd =
                      "sudo rc-service " \o top[i].name \o " " \o Token(top[i].action)
                /\ result[i] = log[i][1].res
           ELSE log[i] = <<>>

C18_Witness ==
    \E i \in Inst :
        /\ top[i].op = "Service" /\ IsIdle(i)
        /\ top[i].name = "docker" /\ top[i].action = "Restart"
        /\ log[i][1].cmd = "sudo rc-service docker restart"
        /\ log[i][1].res = "exit status 2"
        /\ result[i] = "exit status 2"

\* C20: no Provision call issues "sudo apk upgrade" or "sudo reboot": Provision
\* calls Package with Install only and never enters upgrade().
C20_ProvisionNeverUpgrades ==
    \A i \in Inst :
        InProvision(i)
        => /\ pc[i] \notin {"upgrade_apk", "upgrade_reboot"}
           /\ loc[i].action \in {"", "Install"}
           /\ \A k \in 1..Len(log[i]) :
                 log[i][k].cmd \notin {"sudo apk upgrade", "sudo reboot"}

C20_Witness ==
    \E i \in Inst :
        /\ InProvision(i) /\ pc[i] = "makeDockerOptionsDir"
        /\ Len(log[i]) = 4
        /\ log[i][4].cmd = "sudo rc-update add docker boot"
        /\ log[i][4].res = NoError

\* The commands and the outcomes of a log, in order.
Commands(lg) == [k \in 1..Len(lg) |-> lg[k].cmd]
OutcomesOf(lg) == [k \in 1..Len(lg) |-> lg[k].res]
Shorter(a, b) == IF Len(a) <= Len(b) THEN Len(a) ELSE Len(b)

IsDockerUpgrade(i) ==
    top[i].op = "Package" /\ top[i].name = "docker" /\ top[i].action = "Upgrade"

\* C13: for two drivers that differ in DriverName() only, two completed
\* Package("docker", Upgrade) calls whose commands met the same outcomes
\* issued the same commands and returned the same result.
C13_DriverNameAgnostic ==
    \A i, j \in Inst :
        ( /\ IsDockerUpgrade(i) /\ IsDockerUpgrade(j)
          /\ IsIdle(i) /\ IsIdle(j)
          /\ prov[i].Driver.MachineName = prov[j].Driver.MachineName
          /\ \A k \in 1..Shorter(log[i], log[j]) : log[i][k].res = log[j][k].res )
        => /\ Commands(log[i]) = Commands(log[j])
           /\ OutcomesOf(log[i]) = OutcomesOf(log[j])
           /\ result[i] = result[j]

C13_Witness ==
    /\ IsDockerUpgrade("p1") /\ IsDockerUpgrade("p2")
    /\ IsIdle("p1") /\ IsIdle("p2")
    /\ prov["p1"].Driver.DriverName = "virtualbox"
    /\ prov["p2"].Driver.DriverName = "amazonec2"
    /\ prov["p1"].Driver.MachineName = prov["p2"].Driver.MachineName
    /\ Commands(log["p1"]) = <<"sudo apk upgrade", "sudo reboot">>
    /\ Commands(log["p2"]) = <<"sudo apk upgrade", "sudo reboot">>
    /\ OutcomesOf(log["p1"]) = <<NoError, "exit status 1">>
    /\ OutcomesOf(log["p2"]) = <<NoError, "exit status 1">>
    /\ result["p1"] = NoError /\ result["p2"] = NoError

\* C14: looking up "AlpineLinux" in the registry and applying the factory
\* found to a driver d yields a provisioner whose String() is "alpine", whose
\* OS-release id is "alpine", whose packages are exactly <<"docker">>, and whose
\* command executor and Driver are both d; calls made on it afterwards change
\* none of these.
C14_RegistryRoundTrip ==
    \A i \in Inst :
        /\ (top[i].op = "New" /\ top[i].name = "AlpineLinux")
           => /\ prov[i].SSHCommander.Driver = log[i][1].target
              /\ prov[i].Driver = log[i][1].target
        /\ Constructed(i)
           => /\ String(prov[i]) = "alpine"
              /\ prov[i].OsReleaseID = "alpine"
              /\ prov[i].Packages = <<"docker">>
              /\ prov[i].SSHCommander.Driver = prov[i].Driver
              /\ prov[i].Driver \in Drivers

C14_Witness ==
    \E i \in Inst :
        /\ top[i].op = "New" /\ top[i].name = "AlpineLinux"
        /\ log[i][1].target.MachineName = "beta"
        /\ prov[i].Driver.MachineName = "beta"
        /\ prov[i].SSHCommander.Driver.DriverName = "amazonec2"
        /\ prov[i].Packages = <<"docker">>

NoHost ==
    [ hostsCleaned |-> FALSE, hostname |-> "", persisted |-> "", boot |-> {},
      dirs |-> {}, engine |-> "", auth |-> NoAuth, swarm |-> NoSwarm ]

\* The host once the command or call of event e took effect.
Effect(h, e) ==
    CASE e.kind = "GenericSetHostname" -> [h EXCEPT !.hostname = e.cmd]
      [] e.kind = "selectDocker" -> [h EXCEPT !.engine = e.cmd]
      [] e.kind = "makeDockerOptionsDir" -> [h EXCEPT !.dirs = @ \cup {e.cmd}]
      [] e.kind = "ConfigureAuth" -> [h EXCEPT !.auth = e.auth]
      [] e.kind = "configureSwarm" -> [h EXCEPT !.swarm = e.swarm]
      [] e.kind = "SSHCommand" ->
            IF e.cmd = "sed /127.0.1.1/d /etc/hosts > /tmp/hosts && cat /tmp/hosts | sudo tee /etc/hosts"
            THEN [h EXCEPT !.hostsCleaned = TRUE]
            ELSE IF e.cmd \in {"sudo rc-update add " \o n \o " boot" : n \in PkgNames}
            THEN [h EXCEPT !.boot = @ \cup {e.cmd}]
            ELSE [h EXCEPT !.persisted = e.cmd]
      [] OTHER -> h

\* The host after the events of lg, from host h; a failed event has no effect
\* (partial = FALSE) or has had its effect all the same (partial = TRUE).
RECURSIVE HostAfter(_, _, _)
HostAfter(h, lg, partial) ==
    IF lg = <<>> THEN h
    ELSE HostAfter(IF Head(lg).res = NoError \/ partial THEN Effect(h, Head(lg)) ELSE h,
                   Tail(lg), partial)

SameArguments(a, b) ==
    /\ a.swarmOptions = b.swarmOptions
    /\ a.authOptions = b.authOptions
    /\ a.engineOptions = b.engineOptions

\* C16: Provision called again with the same arguments on the same provisioner,
\* after a call that failed at any step or succeeded, starts at the first step
\* and issues the events a call on a fresh provisioner issues; and on a host
\* where the effects are idempotent, the host after the earlier call and a
\* successful repeated call is the host after one successful call.
C16_ProvisionAgain ==
    \A i \in Inst :
        ( /\ InProvision(i) /\ prev[i].top.op = "Provision"
          /\ SameArguments(prev[i].top, top[i]) )
        => LET fresh == NewAlpineProvisioner(prov[i].Driver)
               expected ==
                   ExpectedProvision(fresh, top[i].swarmOptions, top[i].authOptions,
                                     top[i].engineOptions)
           IN  /\ SupportedDriver(top[i].engineOptions.StorageDriver)
                  => FailFast(log[i], expected, IsIdle(i), result[i])
               /\ ~SupportedDriver(top[i].engineOptions.StorageDriver)
                  => (log[i] = <<>> /\ prev[i].log = <<>> /\ result[i] = prev[i].result)
               /\ (IsIdle(i) /\ result[i] = NoError)
                  => \A partial \in BOOLEAN :
                        HostAfter(NoHost, prev[i].log \o log[i], partial)
                            = HostAfter(NoHost, expected, partial)

C16_Witness ==
    \E i \in Inst :
        /\ InProvision(i) /\ prev[i].top.op = "Provision"
        /\ SameArguments(prev[i].top, top[i])
        /\ Len(prev[i].log) = 5
        /\ prev[i].log[5].kind = "selectDocker"
        /\ prev[i].result = "exit status 1"
        /\ IsIdle(i) /\ result[i] = NoError
        /\ Len(log[i]) = 9
        /\ HostAfter(NoHost, prev[i].log \o log[i], FALSE).boot = {"sudo rc-update add docker boot"}

\* What provisioner i has stored when only its own calls wrote its fields.
StoredAlone(i) ==
    IF InProvision(i)
    THEN /\ prov[i].SwarmOptions = top[i].swarmOptions
         /\ prov[i].EngineOptions =
                [top[i].engineOptions EXCEPT !.StorageDriver = ResolveStorageDriver(@)]
         /\ prov[i].AuthOptions =
                IF \E k \in 1..Len(log[i]) : log[i][k].kind = "setRemoteAuthOptions"
                THEN RemoteAuth(top[i].authOptions)
                ELSE top[i].authOptions
    ELSE /\ prov[i].SwarmOptions = NoSwarm
         /\ prov[i].EngineOptions = NoEngine
         /\ prov[i].AuthOptions = NoAuth

\* C17: Provision calls running at the same time on provisioners with
\* distinct drivers do not interfere: each call issues its commands to its own
\* driver only, and its events, stored options and result are those of the
\* call running alone.
C17_NoInterference ==
    /\ \A i, j \in Inst : i # j => prov[i].Driver # prov[j].Driver
    /\ \A i \in Inst :
          /\ prov[i].SSHCommander.Driver = prov[i].Driver
          /\ \A k \in 1..Len(log[i]) : log[i][k].target = prov[i].Driver
          /\ StoredAlone(i)
          /\ InProvision(i) =>
                LET alone ==
                        ExpectedProvision(NewAlpineProvisioner(prov[i].Driver),
                                          top[i].swarmOptions, top[i].authOptions,
                                          top[i].engineOptions)
                IN  IF SupportedDriver(top[i].engineOptions.StorageDriver)
                    THEN FailFast(log[i], alone, IsIdle(i), result[i])
                    ELSE log[i] = <<>> /\ IsIdle(i) /\ result[i] \in UnsupportedErrors

C17_Witness ==
    /\ pc["p1"] = "ConfigureAuth" /\ Len(log["p1"]) = 7
    /\ pc["p2"] = "pkg_ssh" /\ Len(log["p2"]) = 3
    /\ prov["p1"].EngineOptions.InstallURL = "https://test.docker.com"
    /\ prov["p2"].EngineOptions.InstallURL = "https://get.docker.com"
    /\ prov["p1"].SwarmOptions # prov["p2"].SwarmOptions
    /\ prov["p1"].AuthOptions # prov["p2"].AuthOptions

\* The most events a Provision call issues: those of a call that selects the
\* docker engine, all steps succeeding.
MaxProvisionEvents ==
    Len(ExpectedProvision(NewAlpineProvisioner(CHOOSE d \in Drivers : TRUE),
                          NoSwarm, NoAuth,
                          [NoEngine EXCEPT !.InstallURL = "https://test.docker.com"]))

IsHung(i) == pc[i] = "hung"

\* A Provision call is in exactly one of: running, hung, returned; its events
\* are bounded, and once returned it succeeded iff the storage driver is
\* supported and every event succeeded.
ProvisionOutcome(i) ==
    InProvision(i) =>
        /\ Len(log[i]) <= Len(ExpectedOf(i))
        /\ Len(ExpectedOf(i)) <= MaxProvisionEvents
        /\ IsIdle(i) <=> result[i] # Pending
        /\ IsIdle(i) =>
              /\ result[i] \in Outcomes \cup UnsupportedErrors
              /\ result[i] = NoError
                    <=> /\ SupportedDriver(top[i].engineOptions.StorageDriver)
                        /\ AllSucceeded(log[i])
                        /\ Len(log[i]) = Len(ExpectedOf(i))

\* C19: as long as every remote command and collaborator call returns, every
\* Provision call ends, after a bounded number of events, in success or in an
\* error, success exactly when the storage driver is "" or "overlay" and
\* every step succeeded; a call that never returns keeps Provision from
\* ever returning, there being no timeout.
C19_Termination ==
    /\ [](\A i \in Inst : ProvisionOutcome(i))
    /\ \A i \in Active :
          (InProvision(i) /\ ~IsIdle(i)) ~> (IsIdle(i) \/ IsHung(i))
    /\ [][\A i \in Inst : IsHung(i) => (pc'[i] = "hung" /\ result'[i] = Pending)]_vars

C19_Witness ==
    \E i \in Active :
        /\ InProvision(i) /\ IsIdle(i)
        /\ Len(log[i]) = MaxProvisionEvents
        /\ result[i] = "exit status 2"

\* A Provision call left waiting for a command that never returns.
C19_HungWitness ==
    \E i \in Active : InProvision(i) /\ IsHung(i) /\ Len(log[i]) = 4

-----------------------------------------------------------------------------
(* C21 *)

\* C21: the SwarmOptions Provision stores on the provisioner are the caller's
\* swarmOptions with the caller's own Env, during the call and after it,
\* whether it succeeds, fails or rejects the storage driver; only the
\* swarmOptions handed to configureSwarm carry engineOptions.Env, the rest of
\* them being what was stored.
C21_StoredSwarmEnv ==
    \A i \in Inst :
        InProvision(i) =>
            /\ prov[i].SwarmOptions.Env = top[i].swarmOptions.Env
            /\ prov[i].SwarmOptions = top[i].swarmOptions
            /\ \A k \in 1..Len(log[i]) :
                  log[i][k].kind = "configureSwarm"
                  => log[i][k].swarm =
                         [prov[i].SwarmOptions EXCEPT !.Env = top[i].engineOptions.Env]

C21_Witness ==
    \E i \in Inst :
        /\ InProvision(i) /\ IsIdle(i) /\ result[i] = NoError
        /\ top[i].swarmOptions.Env = <<"HTTP_PROXY=proxy:3128">>
        /\ top[i].engineOptions.Env = <<>>
        /\ prov[i].SwarmOptions.Env = <<"HTTP_PROXY=proxy:3128">>
        /\ log[i][Len(log[i])].kind = "configureSwarm"
        /\ log[i][Len(log[i])].swarm.Env = <<>>

=============================================================================
